---- MODULE Spec2Model ----
(***************************************************************************)
(* Model of the text-analytics pipeline of text_analysis.py (the lexicon   *)
(* variant) and txt_analysis_berts.py (the model variant).                 *)
(*                                                                         *)
(* Texts and words are sequences of one-character strings, so that the     *)
(* regular expressions of the source are modelled character by character.  *)
(* A Python number is an exact rational numerator / denominator.           *)
(***************************************************************************)
EXTENDS Integers, Sequences, FiniteSets, TLC

VARIABLES
  \* the module globals of text_analysis.py, set by main
  lexicon_loaded, stop_words, positive_words, negative_words,
  \* the call of a function under test: its name, its argument, its result
  fn, arg, out,
  \* which script runs: "lexicon" (text_analysis.py) or "model" (txt_analysis_berts.py)
  variant,
  \* the word-list files under StopWords and MasterDictionary
  files,
  \* the workbook at input_path = output_path: whether the file exists, whether
  \* it is a readable workbook, and the cells of its active sheet
  book,
  \* what each URL answers: the page, or a failure of the request
  web,
  \* main: where it stands, its locals df, url and results, the number of rows
  \* the loop has taken, and what it printed
  pc, df, url, results, taken, report, warnings,
  \* the number of the run, the workbook and the web as the run found them, and
  \* what the run before left
  run, book0, web0, prev

pureVars == <<fn, arg, out>>
lexVars == <<lexicon_loaded, stop_words, positive_words, negative_words>>
envVars == <<variant, files, book, web>>
mainVars == <<pc, df, url, results, taken, report, warnings>>
histVars == <<run, book0, web0, prev>>

\* ------------------------------------------------------------------ bounds
\* longest text handed to calculate_scores, counted in pieces of TextPieces
MaxPieces == 3
\* longest word handed to syllable_count, in characters
MaxWordLen == 3
\* largest numerator of one class probability of the classifier
MaxMass == 2
\* the most records of the spreadsheet
MaxRecords == 2
\* the most runs of the script, one after the other
MaxRuns == 2

\* ------------------------------------------------------- program constants
\* the 13 metric fields of a score vector ([0] * 13, [None] * 13)
VectorLen == 13
\* 1 / 0.000001, the epsilon of polarity_score and subjectivity_score
EpsilonInv == 1000000
\* complex words have syllable_count(word) > 2
ComplexThreshold == 2

\* --------------------------------------------------------------- characters
LowerLetters == {"a", "b", "d", "e", "g", "i", "o", "s", "u", "w", "x", "y"}
UpperLetters == {"B", "E", "G", "I", "U", "Y"}
Digits == {"1"}
Terminators == {".", "!", "?"}
Whitespace == {" "}

\* str.lower() on one character
LowerChar(c) ==
  CASE c = "B" -> "b" [] c = "E" -> "e" [] c = "G" -> "g"
    [] c = "I" -> "i" [] c = "U" -> "u" [] c = "Y" -> "y"
    [] OTHER -> c

\* str.lower()
Lower(s) == [k \in 1..Len(s) |-> LowerChar(s[k])]

\* \w of the regular expressions: letters, digits and the underscore
IsWordChar(c) == c \in LowerLetters \cup UpperLetters \cup Digits \cup {"_"}

\* str.isalnum() on one character: \w without the underscore
IsAlnumChar(c) == c \in LowerLetters \cup UpperLetters \cup Digits

\* str.isalnum(): non-empty and every character alphanumeric
IsAlnum(w) == Len(w) > 0 /\ \A k \in 1..Len(w) : IsAlnumChar(w[k])

\* ------------------------------------------------------------------ values
\* A Python value held in a score vector or a spreadsheet cell: a number (the
\* rational n / d, d > 0), a string, or None.
Rat(n, d) == [kind |-> "num", n |-> n, d |-> d, s |-> ""]
IntVal(n) == Rat(n, 1)
Str(x) == [kind |-> "str", n |-> 0, d |-> 1, s |-> x]
NoneVal == [kind |-> "None", n |-> 0, d |-> 1, s |-> ""]
RatAdd(a, b) == Rat(a.n * b.d + b.n * a.d, a.d * b.d)
\* abs(a)
RatAbs(a) == IF a.n < 0 THEN Rat(-a.n, a.d) ELSE a
\* -1 <= a <= 1
InUnitInterval(a) == a.kind = "num" /\ a.d > 0 /\ -a.d <= a.n /\ a.n <= a.d

\* ------------------------------------------------------------- tokenizers
RECURSIVE WordRuns(_, _)
\* the maximal runs of \w characters of s, left to right (cur: the run so far)
WordRuns(s, cur) ==
  IF s = <<>> THEN (IF cur = <<>> THEN <<>> ELSE <<cur>>)
  ELSE IF IsWordChar(Head(s)) THEN WordRuns(Tail(s), Append(cur, Head(s)))
  ELSE (IF cur = <<>> THEN <<>> ELSE <<cur>>) \o WordRuns(Tail(s), <<>>)

\* re.findall(r'\b\w+\b', text.lower())
simple_word_tokenize(text) == WordRuns(Lower(text), <<>>)

RECURSIVE RunLen(_, _, _)
\* the number of consecutive characters of class cls in s from position i on
RunLen(s, i, cls) ==
  IF i <= Len(s) /\ s[i] \in cls THEN 1 + RunLen(s, i + 1, cls) ELSE 0

\* the length of the match of [.!?]+\s+(?=[A-Z]) at position i of s, 0 if none
SeparatorAt(s, i) ==
  LET t == RunLen(s, i, Terminators)
      w == RunLen(s, i + t, Whitespace)
  IN IF t > 0 /\ w > 0 /\ i + t + w <= Len(s) /\ s[i + t + w] \in UpperLetters
     THEN t + w ELSE 0

RECURSIVE SplitSentences(_, _, _)
\* re.split(r'[.!?]+\s+(?=[A-Z])', text) from position i on (cur: the piece so far)
SplitSentences(s, i, cur) ==
  IF i > Len(s) THEN <<cur>>
  ELSE IF SeparatorAt(s, i) > 0
       THEN <<cur>> \o SplitSentences(s, i + SeparatorAt(s, i), <<>>)
       ELSE SplitSentences(s, i + 1, Append(cur, s[i]))

RECURSIVE Strip(_)
\* str.strip()
Strip(s) ==
  IF s = <<>> THEN s
  ELSE IF Head(s) \in Whitespace THEN Strip(Tail(s))
  ELSE IF s[Len(s)] \in Whitespace THEN Strip(SubSeq(s, 1, Len(s) - 1))
  ELSE s

\* [s.strip() for s in sentences if s.strip()]
simple_sentence_tokenize(text) ==
  LET pieces == SplitSentences(text, 1, <<>>)
      stripped == [k \in 1..Len(pieces) |-> Strip(pieces[k])]
  IN SelectSeq(stripped, LAMBDA p : p # <<>>)

\* ------------------------------------------------------- readability pieces
Vowels == {"a", "e", "i", "o", "u", "y"}

\* str.endswith(suffix)
EndsWith(w, suffix) ==
  Len(w) >= Len(suffix) /\ SubSeq(w, Len(w) - Len(suffix) + 1, Len(w)) = suffix

Max(a, b) == IF a >= b THEN a ELSE b

\* a wrong syllable_count: the floor of 1 is forgotten
syllable_count_nofloor(word) ==
  LET w == Lower(word)
      count == Cardinality({k \in 1..Len(w) : w[k] \in Vowels})
  IN IF EndsWith(w, <<"e", "s">>) \/ EndsWith(w, <<"e", "d">>) THEN count - 1 ELSE count

syllable_count(word) ==
  LET w == Lower(word)
      count == Cardinality({k \in 1..Len(w) : w[k] \in Vowels})
      count2 == IF EndsWith(w, <<"e", "s">>) \/ EndsWith(w, <<"e", "d">>)
                THEN count - 1 ELSE count
  IN Max(1, count2)

RECURSIVE SumSeq(_)
SumSeq(ns) == IF ns = <<>> THEN 0 ELSE Head(ns) + SumSeq(Tail(ns))

\* the number of elements of the sequence ws that are in the set S
CountIn(ws, S) == Cardinality({k \in 1..Len(ws) : ws[k] \in S})

avg_syllable_per_word(words) ==
  IF words = <<>> THEN IntVal(0)
  ELSE Rat(SumSeq([k \in 1..Len(words) |-> syllable_count(words[k])]), Len(words))

\* the words of \b(I|we|my|ours|us)\b
PRONOUNS == {<<"i">>, <<"w", "e">>, <<"m", "y">>, <<"o", "u", "r", "s">>, <<"u", "s">>}

\* len(re.findall(r'\b(I|we|my|ours|us)\b', text, re.I)): a match begins and ends
\* at a word boundary, so it is a maximal run of \w characters of the text as
\* given (not lower-cased) that equals one of the words when case is ignored
personal_pronouns(text) ==
  LET runs == WordRuns(text, <<>>)
  IN Cardinality({k \in 1..Len(runs) : Lower(runs[k]) \in PRONOUNS})

\* ------------------------------------------------------------ score vectors
\* a wrong null vector: one None short
NullVectorShort == [k \in 1..(VectorLen - 1) |-> NoneVal]

\* [None] * 13
NullVector == [k \in 1..VectorLen |-> NoneVal]
\* [0] * 13
ZeroVector == [k \in 1..VectorLen |-> IntVal(0)]

\* 0.4 * x
FourTenths(x) == Rat(2 * x.n, 5 * x.d)

\* the readability fields 5..13 of both variants, from the cleaned words, the
\* sentences and the text
Readability(cleaned_words, sentences, text) ==
  LET n == Len(cleaned_words)
      avg_sentence_length == Rat(n, Len(sentences))
      complex_words == SelectSeq(cleaned_words,
                                 LAMBDA w : syllable_count(w) > ComplexThreshold)
      percentage_complex_words == Rat(Len(complex_words), n)
      fog_index == FourTenths(RatAdd(avg_sentence_length, percentage_complex_words))
      avg_word_length == Rat(SumSeq([k \in 1..n |-> Len(cleaned_words[k])]), n)
  IN << avg_sentence_length, percentage_complex_words, fog_index,
        avg_sentence_length, IntVal(Len(complex_words)), IntVal(n),
        avg_syllable_per_word(cleaned_words), IntVal(personal_pronouns(text)),
        avg_word_length >>

\* the cleaned words of the lexicon variant
CleanedWords(text) ==
  SelectSeq(simple_word_tokenize(text),
            LAMBDA w : IsAlnum(w) /\ w \notin stop_words)

\* the cleaned words of the model variant: stopwords stay
CleanedWordsBert(text) == SelectSeq(simple_word_tokenize(text), IsAlnum)

\* whether the body of calculate_scores raises: the globals are read, before
\* main has set them, for the first alphanumeric word (NameError)
ScoringRaises(text) ==
  /\ ~lexicon_loaded
  /\ \E k \in 1..Len(simple_word_tokenize(text)) : IsAlnum(simple_word_tokenize(text)[k])

\* a wrong polarity_score: the difference over the positive count alone
polarity_score_wrongden(p, n) == Rat((p - n) * EpsilonInv, p * EpsilonInv + 1)

\* (positive - negative) / ((positive + negative) + 0.000001)
polarity_score(p, n) == Rat((p - n) * EpsilonInv, (p + n) * EpsilonInv + 1)

\* a wrong degenerate test: only the sentences are looked at
DegenerateSentencesOnly(cleaned_words, sentences) == sentences = <<>>

\* the degenerate test of calculate_scores: not cleaned_words or not sentences
Degenerate(cleaned_words, sentences) == cleaned_words = <<>> \/ sentences = <<>>

\* text_analysis.py, calculate_scores
calculate_scores(text) ==
  IF ScoringRaises(text) THEN ZeroVector
  ELSE
    LET cleaned_words == CleanedWords(text)
        sentences == simple_sentence_tokenize(text)
        p == CountIn(cleaned_words, positive_words)
        n == CountIn(cleaned_words, negative_words)
    IN IF Degenerate(cleaned_words, sentences) THEN ZeroVector
       ELSE << IntVal(p), IntVal(n), polarity_score(p, n),
               Rat((p + n) * EpsilonInv, Len(cleaned_words) * EpsilonInv + 1) >>
            \o Readability(cleaned_words, sentences, text)

\* what tokenizer(...) and model(...) do for a text: raise, or answer with the
\* five class probabilities (1 to 5 stars), each a numerator over MaxMass
ClassifierRaises == [raised |-> TRUE, scores |-> [k \in 1..5 |-> 0]]
ClassifierAnswers ==
  {ClassifierRaises} \cup {[raised |-> FALSE, scores |-> s] : s \in [1..5 -> 0..MaxMass]}

\* txt_analysis_berts.py, get_bert_sentiment: (positive, negative, compound);
\* an exception of the tokenizer or the model, and the ZeroDivisionError of a
\* zero denominator, end in the handler's (0.0, 0.0, 0.0)
get_bert_sentiment(answer) ==
  LET positive_score == answer.scores[4] + answer.scores[5]
      negative_score == answer.scores[1] + answer.scores[2]
      neutral_score == answer.scores[3]
      den == positive_score + negative_score + neutral_score
  IN IF answer.raised \/ den = 0 THEN << IntVal(0), IntVal(0), IntVal(0) >>
     ELSE << Rat(positive_score, MaxMass), Rat(negative_score, MaxMass),
             Rat(positive_score - negative_score, den) >>

\* txt_analysis_berts.py, calculate_scores
calculate_scores_bert(text, answer) ==
  LET cleaned_words == CleanedWordsBert(text)
      sentences == simple_sentence_tokenize(text)
      sentiment == get_bert_sentiment(answer)
  IN IF Degenerate(cleaned_words, sentences) THEN ZeroVector
     ELSE << sentiment[1], sentiment[2], sentiment[3], RatAbs(sentiment[3]) >>
          \o Readability(cleaned_words, sentences, text)

\* ------------------------------------------------- the built-in word lists
\* excerpts of POSITIVE_WORDS, NEGATIVE_WORDS and STOPWORDS, as sets of lines
POSITIVE_WORDS == { <<"g", "o", "o", "d">> }
NEGATIVE_WORDS == { <<"b", "a", "d">> }
STOPWORDS == { <<"w", "e">>, <<"i">>, <<"a">> }

\* ---------------------------------------------------- the word-list files
\* a word-list file: whether it exists, whether open() and read() succeed, and
\* set(f.read().splitlines())
AbsentFile == [exists |-> FALSE, readable |-> FALSE, words |-> {}]
UnreadableFile == [exists |-> TRUE, readable |-> FALSE, words |-> {}]
FileOf(words) == [exists |-> TRUE, readable |-> TRUE, words |-> words]

\* create_word_lists: os.makedirs and the three writes. It raises when something
\* is to be created and base_path cannot be written to.
CreateRaises(f) ==
  /\ ~f.writable
  /\ ~f.dirs \/ ~f.pos.exists \/ ~f.neg.exists \/ ~f.stop.exists

create_word_lists(f) ==
  IF CreateRaises(f) THEN f
  ELSE [f EXCEPT !.dirs = TRUE,
                 !.pos = IF f.pos.exists THEN f.pos ELSE FileOf(POSITIVE_WORDS),
                 !.neg = IF f.neg.exists THEN f.neg ELSE FileOf(NEGATIVE_WORDS),
                 !.stop = IF f.stop.exists THEN f.stop ELSE FileOf(STOPWORDS)]

\* whether the try block of load_stopwords raises: os.listdir of a missing
\* directory, or open() of a file of it
StopwordsRaise(f) == ~f.dirs \/ (f.stop.exists /\ ~f.stop.readable)

load_stopwords(f) ==
  IF StopwordsRaise(f) THEN STOPWORDS
  ELSE IF f.stop.exists THEN f.stop.words ELSE {}

\* whether the try block of load_master_dictionary raises
MasterRaise(f) ==
  ~(f.pos.exists /\ f.pos.readable /\ f.neg.exists /\ f.neg.readable)

\* (positive_words, negative_words)
load_master_dictionary(f) ==
  IF MasterRaise(f) THEN <<POSITIVE_WORDS, NEGATIVE_WORDS>>
  ELSE <<f.pos.words, f.neg.words>>

\* ------------------------------------------------------------ the workbook
\* a wrong first row: the results start one row too low
StartRowLate == 2 + 1

\* the first sheet row that results are written to: enumerate(results, start=2)
StartRow == 2
\* the columns of a result row: URL_ID, URL and the 13 metrics
NCols == 2 + VectorLen

BlankRow == [c \in 1..NCols |-> NoneVal]

\* the header row: the names of columns 1 and 2, then the metric columns
HeaderRow(name1, name2) ==
  [c \in 1..NCols |-> IF c = 1 THEN Str(name1) ELSE IF c = 2 THEN Str(name2)
                      ELSE Str("METRIC")]

\* the position of the column called name in df, 0 when there is none (KeyError)
ColumnOf(frame, name) ==
  IF \E c \in 1..Len(frame.columns) : frame.columns[c] = Str(name)
  THEN CHOOSE c \in 1..Len(frame.columns) : frame.columns[c] = Str(name)
  ELSE 0

\* pd.read_excel: the first row names the columns, the rows after it are the records
read_excel(sheet) == [columns |-> Head(sheet), rows |-> Tail(sheet)]

\* sheet.cell(row=r, column=c, value=v): the cell is created when it is not
\* there, and openpyxl sets its value only if v is not None
WriteCell(sheet, r, c, v) ==
  LET padded == sheet \o [k \in 1..(r - Len(sheet)) |-> BlankRow]
  IN IF v = NoneVal THEN padded ELSE [padded EXCEPT ![r][c] = v]

RECURSIVE WriteRow(_, _, _, _)
\* for j, value in enumerate(result, start=1): sheet.cell(row=r, column=j, value=value),
\* from column j on
WriteRow(sheet, r, result, j) ==
  IF j > Len(result) THEN sheet
  ELSE WriteRow(WriteCell(sheet, r, j, result[j]), r, result, j + 1)

RECURSIVE WriteResultsFrom(_, _, _)
\* for i, result in enumerate(results, start=2): ..., from the k-th result on
WriteResultsFrom(sheet, res, k) ==
  IF k > Len(res) THEN sheet
  ELSE WriteResultsFrom(WriteRow(sheet, StartRow + k - 1, res[k], 1), res, k + 1)

\* ------------------------------------------------------------------ the web
Urls == {"u1", "u2"}

\* what a URL answers: no page (requests.get or the parser raises), or a page
\* with the text of its h1 and of its paragraphs; and what the classifier does
\* with the text of that page
NoPage == [fails |-> TRUE, title |-> <<>>, content |-> <<>>, answer |-> ClassifierRaises]
PageOf(title, content, answer) ==
  [fails |-> FALSE, title |-> title, content |-> content, answer |-> answer]

\* title + ' ' + content, or '' when anything raised
extract_article_text(page) ==
  IF page.fails THEN <<>> ELSE page.title \o <<" ">> \o page.content

\* -------------------------------------------------------------------- main
Unbound == [kind |-> "unbound", n |-> 0, d |-> 1, s |-> ""]

\* the scores of a text in the variant that runs
Scores(text, answer) ==
  IF variant = "lexicon" THEN calculate_scores(text)
  ELSE calculate_scores_bert(text, answer)

\* The start of main, up to the loop: create_word_lists and the two loads (lexicon
\* variant only), the test that the input file exists, pd.read_excel.
Start ==
  /\ pc = "start"
  /\ book0' = book /\ web0' = web
  /\ IF variant = "lexicon" /\ CreateRaises(files)
     THEN \* caught by the handler of line 366
          /\ report' = "unexpected error" /\ pc' = "exit"
          /\ UNCHANGED <<lexVars, files, df, warnings>>
     ELSE /\ IF variant = "lexicon"
             THEN LET created == create_word_lists(files)
                  IN /\ files' = created
                     /\ lexicon_loaded' = TRUE
                     /\ stop_words' = load_stopwords(created)
                     /\ positive_words' = load_master_dictionary(created)[1]
                     /\ negative_words' = load_master_dictionary(created)[2]
                     /\ warnings' =
                          (IF StopwordsRaise(created) THEN {"default stopwords"} ELSE {})
                          \cup (IF MasterRaise(created) THEN {"default word lists"} ELSE {})
             ELSE UNCHANGED <<lexVars, files, warnings>>
          /\ IF ~book.exists
             THEN /\ report' = "input not found" /\ pc' = "exit" /\ UNCHANGED df
             ELSE IF ~book.intact
             THEN /\ report' = "error reading" /\ pc' = "exit" /\ UNCHANGED df
             ELSE /\ df' = read_excel(book.sheet) /\ pc' = "loop" /\ UNCHANGED report
  /\ UNCHANGED <<pureVars, variant, book, web, url, results, taken, run, prev>>

\* One pass of the loop body for the k-th record, u being the value of the local
\* url before it: whether an exception leaves the handler of line 348 (raised),
\* the row appended to results (none when raised), and the local url after it.
RowOutcome(frame, k, u) ==
  LET row == frame.rows[k]
      cu == ColumnOf(frame, "URL")
      ci == ColumnOf(frame, "URL_ID")
      \* the handler of line 348, entered with the local url being v
      Handler(v) ==
        IF v = Unbound \/ ci = 0
        THEN [raised |-> TRUE, url |-> v, appended |-> <<>>]
        ELSE [raised |-> FALSE, url |-> v, appended |-> <<row[ci], v>> \o NullVector]
  IN IF cu = 0 THEN Handler(u)                     \* row['URL']: KeyError
     ELSE LET text == extract_article_text(web[row[cu].s])
          IN IF ci = 0 THEN Handler(row[cu])       \* row['URL_ID']: KeyError
             ELSE IF text = <<>>
             THEN [raised |-> FALSE, url |-> row[cu],
                   appended |-> <<row[ci], row[cu]>> \o NullVector]
             ELSE [raised |-> FALSE, url |-> row[cu],
                   appended |-> <<row[ci], row[cu]>> \o Scores(text, web[row[cu].s].answer)]

\* for index, row in df.iterrows(): one record
ProcessRow ==
  /\ pc = "loop" /\ taken < Len(df.rows)
  /\ LET o == RowOutcome(df, taken + 1, url)
     IN /\ url' = o.url
        /\ IF o.raised
           THEN \* the handler itself raised: caught by the handler of line 366
                /\ report' = "unexpected error" /\ pc' = "exit"
                /\ UNCHANGED <<results, taken>>
           ELSE /\ results' = Append(results, o.appended)
                /\ taken' = taken + 1
                /\ UNCHANGED <<pc, report>>
  /\ UNCHANGED <<lexVars, pureVars, envVars, df, warnings, histVars>>

\* how the write back can end
WriteOutcomes == {"saved", "load fails", "save fails", "save fails midway"}

\* a wrong write back: the workbook is saved after every row, so that a save
\* that fails at the end leaves the rows saved before it
BookAfterEager(outcome, b, res) ==
  CASE outcome = "saved" -> [b EXCEPT !.sheet = WriteResultsFrom(b.sheet, res, 1)]
    [] outcome = "save fails" -> [b EXCEPT !.sheet = WriteResultsFrom(b.sheet, res, 1)]
    [] outcome = "save fails midway" -> [b EXCEPT !.intact = FALSE]
    [] OTHER -> b

\* The file after load_workbook, the cell writes and wb.save: the cells are
\* written to the workbook in memory and reach the file with the one save. A
\* save that fails midway leaves a file that is no workbook.
BookAfter(outcome, b, res) ==
  CASE outcome = "saved" -> [b EXCEPT !.sheet = WriteResultsFrom(b.sheet, res, 1)]
    [] outcome = "save fails midway" -> [b EXCEPT !.intact = FALSE]
    [] OTHER -> b

\* after the loop: the write back to the workbook
WriteResults ==
  /\ pc = "loop" /\ taken = Len(df.rows)
  /\ \E outcome \in WriteOutcomes :
       /\ book' = BookAfter(outcome, book, results)
       /\ report' = IF outcome = "saved" THEN "completed" ELSE "error writing"
  /\ pc' = "exit"
  /\ UNCHANGED <<lexVars, pureVars, variant, files, web, df, url, results, taken,
                 warnings, histVars>>

\* the script is started again: a new process, nothing kept but the files
Rerun ==
  /\ pc = "exit" /\ run < MaxRuns
  /\ run' = run + 1
  /\ prev' = [ran |-> TRUE, report |-> report, results |-> results,
              sheet |-> book.sheet, web |-> web0]
  /\ pc' = "start" /\ df' = read_excel(<<BlankRow>>) /\ url' = Unbound
  /\ results' = <<>> /\ taken' = 0 /\ report' = "" /\ warnings' = {}
  /\ lexicon_loaded' = FALSE /\ stop_words' = {} /\ positive_words' = {}
  /\ negative_words' = {}
  /\ UNCHANGED <<pureVars, envVars, book0, web0>>

\* between two runs a site goes down
SiteDown ==
  /\ pc = "exit" /\ run < MaxRuns
  /\ \E u \in Urls : ~web[u].fails /\ web' = [web EXCEPT ![u] = NoPage]
  /\ UNCHANGED <<lexVars, pureVars, variant, files, book, mainVars, histVars>>

\* --------------------------------------------------- the inputs of a run
\* the states of the word-list files a run may find
NoFiles ==
  [dirs |-> FALSE, writable |-> TRUE, pos |-> AbsentFile, neg |-> AbsentFile,
   stop |-> AbsentFile]
FilesOf(pos, neg, stop) ==
  [dirs |-> TRUE, writable |-> TRUE, pos |-> pos, neg |-> neg, stop |-> stop]
LexScenarios ==
  { NoFiles,
    [NoFiles EXCEPT !.writable = FALSE],
    FilesOf(UnreadableFile, FileOf(NEGATIVE_WORDS), FileOf(STOPWORDS)),
    FilesOf(FileOf({}), FileOf(NEGATIVE_WORDS), FileOf(STOPWORDS)),
    FilesOf(FileOf(POSITIVE_WORDS), FileOf(NEGATIVE_WORDS), UnreadableFile),
    FilesOf(FileOf({<<"i", "d", "e", "a">>}), FileOf({<<"g", "o", "o", "d">>}),
            FileOf({<<"u", "s">>})) }

\* the pages: an empty page; a page "Good" / "bad. Us idea"; a page of stopwords
NoText == <<>>
NewsTitle == <<"G", "o", "o", "d">>
NewsContent == <<"b", "a", "d", ".", " ", "U", "s", " ", "i", "d", "e", "a">>
StopContent == <<"w", "e", " ", "a">>
Likes == [raised |-> FALSE, scores |-> <<0, 0, 0, 1, 1>>]
Pages ==
  IF variant = "lexicon"
  THEN { NoPage, PageOf(NoText, NoText, Likes), PageOf(NewsTitle, NewsContent, Likes),
         PageOf(NoText, StopContent, Likes) }
  ELSE { NoPage, PageOf(NewsTitle, NewsContent, Likes),
         PageOf(NewsTitle, NewsContent, ClassifierRaises),
         PageOf(NoText, StopContent, Likes) }

\* the record rows of a sheet: URL_ID k and a URL in row k + 1, no metrics yet
RecordRows ==
  UNION { { [k \in 1..n |-> [c \in 1..NCols |->
                IF c = 1 THEN IntVal(k) ELSE IF c = 2 THEN Str(us[k]) ELSE NoneVal]]
            : us \in [1..n -> Urls] } : n \in 0..MaxRecords }

\* the header rows: as the output layout has them, or with one name missing
Headers ==
  { HeaderRow("URL_ID", "URL"), HeaderRow("ID", "URL"), HeaderRow("URL_ID", "LINK") }

MissingBook == [exists |-> FALSE, intact |-> FALSE, sheet |-> <<BlankRow>>]
DamagedBook == [exists |-> TRUE, intact |-> FALSE, sheet |-> <<BlankRow>>]
Books ==
  { MissingBook, DamagedBook }
  \cup { [exists |-> TRUE, intact |-> TRUE, sheet |-> <<h>> \o rows]
         : h \in Headers, rows \in RecordRows }

NoRunBefore ==
  [ran |-> FALSE, report |-> "", results |-> <<>>, sheet |-> <<>>,
   web |-> [u \in Urls |-> NoPage]]

\* main has not begun
MainAtStart ==
  /\ pc = "start" /\ df = read_excel(<<BlankRow>>) /\ url = Unbound
  /\ results = <<>> /\ taken = 0 /\ report = "" /\ warnings = {}

Init ==
  /\ variant \in {"lexicon", "model"}
  /\ files \in IF variant = "lexicon" THEN LexScenarios ELSE {NoFiles}
  /\ book \in Books
  /\ web \in [Urls -> Pages]
  /\ MainAtStart
  /\ lexicon_loaded = FALSE /\ stop_words = {} /\ positive_words = {}
  /\ negative_words = {}
  /\ run = 1 /\ book0 = book /\ web0 = web /\ prev = NoRunBefore
  /\ fn = "idle" /\ arg = <<>> /\ out = <<>>

Next ==
  \/ Start
  \/ ProcessRow
  \/ WriteResults
  \/ Rerun
  \/ SiteDown

\* ------------------------------------------- inputs of the function calls
\* the pieces texts are made of: Good, bad, we, Us, idea, an underscore, a
\* blank, a full stop, and a full stop followed by a blank
TextPieces ==
  { <<"G", "o", "o", "d">>, <<"b", "a", "d">>, <<"w", "e">>, <<"U", "s">>,
    <<"i", "d", "e", "a">>, <<"_">>, <<" ">>, <<".">>, <<".", " ">> }

RECURSIVE Flatten(_)
Flatten(ps) == IF ps = <<>> THEN <<>> ELSE Head(ps) \o Flatten(Tail(ps))

\* the texts of at most MaxPieces pieces
Texts == { Flatten(ps) : ps \in UNION { [1..k -> TextPieces] : k \in 0..MaxPieces } }

\* the characters words are made of, and the words of at most MaxWordLen characters
WordAlphabet == {"a", "e", "d", "s", "b", "Y", "E"}
Words == UNION { [1..k -> WordAlphabet] : k \in 1..MaxWordLen }

\* the classifier's answers tried inside calculate_scores: it raises, all the
\* mass on 1 star, all on 3 stars, mass on 4 and 5 stars
SampleAnswers ==
  { ClassifierRaises,
    [raised |-> FALSE, scores |-> <<MaxMass, 0, 0, 0, 0>>],
    [raised |-> FALSE, scores |-> <<0, 0, MaxMass, 0, 0>>],
    [raised |-> FALSE, scores |-> <<0, 0, 0, 1, 1>>] }

\* --------------------------------------- specification of the function calls
InitScore ==
  /\ fn = "idle" /\ arg = <<>> /\ out = <<>>
  /\ variant = "lexicon" /\ files = NoFiles /\ book = MissingBook
  /\ web = [u \in Urls |-> NoPage]
  /\ MainAtStart
  /\ run = 1 /\ book0 = book /\ web0 = web /\ prev = NoRunBefore
  /\ lexicon_loaded \in BOOLEAN
  /\ stop_words = IF lexicon_loaded THEN STOPWORDS ELSE {}
  /\ positive_words = IF lexicon_loaded THEN POSITIVE_WORDS ELSE {}
  /\ negative_words = IF lexicon_loaded THEN NEGATIVE_WORDS ELSE {}

CallSyllableCount ==
  /\ fn = "idle"
  /\ \E w \in Words :
       /\ fn' = "syllable_count" /\ arg' = w /\ out' = syllable_count(w)
  /\ UNCHANGED <<lexVars, envVars, mainVars, histVars>>

CallCalculateScores ==
  /\ fn = "idle"
  /\ \E text \in Texts :
       /\ fn' = "calculate_scores" /\ arg' = text /\ out' = calculate_scores(text)
  /\ UNCHANGED <<lexVars, envVars, mainVars, histVars>>

CallCalculateScoresBert ==
  /\ fn = "idle"
  /\ \E text \in Texts, answer \in SampleAnswers :
       /\ fn' = "calculate_scores_bert"
       /\ arg' = [text |-> text, answer |-> answer]
       /\ out' = calculate_scores_bert(text, answer)
  /\ UNCHANGED <<lexVars, envVars, mainVars, histVars>>

CallGetBertSentiment ==
  /\ fn = "idle"
  /\ \E answer \in ClassifierAnswers :
       /\ fn' = "get_bert_sentiment" /\ arg' = answer
       /\ out' = get_bert_sentiment(answer)
  /\ UNCHANGED <<lexVars, envVars, mainVars, histVars>>

\* the counts of positive and of negative words of the text of a call
CallPolarity ==
  /\ fn = "idle"
  /\ \E p \in 0..MaxPieces, n \in 0..MaxPieces :
       /\ fn' = "polarity_score" /\ arg' = <<p, n>> /\ out' = polarity_score(p, n)
  /\ UNCHANGED <<lexVars, envVars, mainVars, histVars>>

NextScore ==
  \/ CallSyllableCount
  \/ CallCalculateScores
  \/ CallCalculateScoresBert
  \/ CallGetBertSentiment
  \/ CallPolarity

vars == <<lexVars, pureVars, envVars, mainVars, histVars>>

Spec == Init /\ [][Next]_vars

SpecScore == InitScore /\ [][NextScore]_vars

\* ------------------------------------------------------------------ claims
\* the metric vector of a result row
VectorOf(result) == SubSeq(result, 3, Len(result))

\* the page of the k-th record, as the run sees it
PageOfRecord(k) == web0[df.rows[k][2].s]

\* C1: every row appended to results has exactly 15 fields, URL_ID, URL and a
\* score vector of exactly 13 elements, whichever path produced it and in both
\* variants.
C1_VectorLength ==
  \A k \in 1..Len(results) :
    /\ Len(results[k]) = 15
    /\ Len(VectorOf(results[k])) = 13
    /\ results[k][1].kind = "num" /\ results[k][2].kind = "str"

\* C1 witness: a finished loop whose first record failed to extract (nulls),
\* and whose second record was scored (a word count above zero).
C1_Witness ==
  /\ pc = "exit" /\ report = "completed" /\ Len(results) = 2
  /\ VectorOf(results[1]) = NullVector
  /\ VectorOf(results[2])[10].kind = "num" /\ VectorOf(results[2])[10].n > 0

\* C2: when a run has ended, results holds exactly one entry per input record,
\* in input order, with 13 nulls for every record whose extraction failed: no
\* failure at a record, an exception raised while its row is processed
\* included, keeps the records after it from being processed.
C2_FailureIsolated ==
  pc = "exit" =>
    /\ Len(results) = Len(df.rows)
    /\ \A k \in 1..Len(results) :
         /\ results[k][1] = df.rows[k][1] /\ results[k][2] = df.rows[k][2]
         /\ PageOfRecord(k).fails => VectorOf(results[k]) = NullVector

\* whether a stage failed for the k-th record: the extraction, or (model
\* variant) the classifier called for a text that is not degenerate
StageFailed(k) ==
  LET page == PageOfRecord(k)
      text == extract_article_text(page)
  IN \/ page.fails
     \/ /\ variant = "model" /\ page.answer.raised
        /\ ~Degenerate(CleanedWordsBert(text), simple_sentence_tokenize(text))

\* C3: score assembly is all-or-nothing: a record for which a stage failed has
\* the vector of 13 nulls, never computed metrics beside failure placeholders.
C3_AllOrNothing ==
  \A k \in 1..Len(results) : StageFailed(k) => VectorOf(results[k]) = NullVector

\* whether the run met an I/O failure: a word-list source that could not be
\* read or created, an input that is missing or unreadable, a failed write back
MetIOFailure ==
  \/ warnings # {}
  \/ report \in {"input not found", "error reading", "error writing"}
  \/ variant = "lexicon" /\ report = "unexpected error" /\ ~lexicon_loaded

\* C4 as stated: a run that met an I/O failure, a word-list source that could
\* not be read included, scored no record with a substitute word list and
\* persisted no cell: the sheet is as the run found it.
C4_NoPartialOutput ==
  (pc = "exit" /\ MetIOFailure) =>
    /\ warnings # {} => results = <<>>
    /\ book.sheet = book0.sheet

\* C4 as amended: every finished run reports how it ended; a run that ended in
\* an error persisted no cell, the sheet is as the run found it and, unless the
\* save failed midway, so is the file; a completed run wrote every record's row;
\* and a word list that cannot be read does not end the run, its built-in
\* default is loaded.
C4_Amended ==
  /\ pc = "exit" =>
       /\ report \in {"completed", "input not found", "error reading",
                      "error writing", "unexpected error"}
       /\ report # "completed" => book.sheet = book0.sheet /\ book.exists = book0.exists
       /\ report \in {"input not found", "error reading", "unexpected error"}
            => book = book0
       /\ report = "completed" =>
            /\ Len(results) = Len(df.rows)
            /\ \A k \in 1..Len(results) : \A c \in 1..15 :
                 results[k][c] # NoneVal => book.sheet[k + 1][c] = results[k][c]
  /\ (variant = "lexicon" /\ lexicon_loaded) =>
       /\ "default stopwords" \in warnings => stop_words = STOPWORDS
       /\ "default word lists" \in warnings =>
            positive_words = POSITIVE_WORDS /\ negative_words = NEGATIVE_WORDS
       /\ (~files.pos.readable \/ ~files.neg.readable) => "default word lists" \in warnings
       /\ ~files.stop.readable => "default stopwords" \in warnings

\* C4 witness: a run that fell back to the default word lists completed and
\* persisted a scored record.
C4_Witness ==
  /\ pc = "exit" /\ report = "completed" /\ "default word lists" \in warnings
  /\ Len(results) > 0 /\ VectorOf(results[1])[10].n > 0
  /\ book.sheet[2] = results[1]

\* C5: each loaded word set is the built-in default whenever its source cannot
\* be read or holds no words.
C5_FallbackWhenEmpty ==
  (variant = "lexicon" /\ lexicon_loaded) =>
    /\ (~files.pos.readable \/ files.pos.words = {}) => positive_words = POSITIVE_WORDS
    /\ (~files.neg.readable \/ files.neg.words = {}) => negative_words = NEGATIVE_WORDS
    /\ (~files.stop.readable \/ files.stop.words = {}) => stop_words = STOPWORDS

\* C6: calculate_scores returns 13 zeros for every text whose cleaned words or
\* whose sentences are empty, in both variants; for a text where both are
\* non-empty the degenerate branch is not taken: the word count field is the
\* number of cleaned words.
C6_DegenerateIsZero ==
  /\ fn = "calculate_scores" =>
       LET cleaned == CleanedWords(arg)
           sentences == simple_sentence_tokenize(arg)
       IN /\ (cleaned = <<>> \/ sentences = <<>>) => out = ZeroVector
          /\ (cleaned # <<>> /\ sentences # <<>> /\ lexicon_loaded) =>
               out[10] = IntVal(Len(cleaned)) /\ out # ZeroVector
  /\ fn = "calculate_scores_bert" =>
       LET cleaned == CleanedWordsBert(arg.text)
           sentences == simple_sentence_tokenize(arg.text)
       IN /\ (cleaned = <<>> \/ sentences = <<>>) => out = ZeroVector
          /\ (cleaned # <<>> /\ sentences # <<>>) =>
               out[10] = IntVal(Len(cleaned)) /\ out # ZeroVector

\* C6 witness: the lexicon variant called, its word lists loaded, with the text
\* "we ." of a stopword and punctuation.
C6_Witness ==
  /\ fn = "calculate_scores" /\ lexicon_loaded
  /\ arg = <<"w", "e", " ", ".">> /\ out = ZeroVector

\* C7: a second run over the workbook the first run wrote, with every URL
\* answering as before, appends the same results and leaves the same sheet.
C7_Idempotent ==
  ( /\ pc = "exit" /\ prev.ran
    /\ prev.report = "completed" /\ report = "completed"
    /\ web0 = prev.web )
  => /\ results = prev.results
     /\ book.sheet = prev.sheet

\* C7 witness: two completed runs over two records with the web unchanged, the
\* first record scored.
C7_Witness ==
  /\ pc = "exit" /\ run = 2 /\ prev.ran
  /\ prev.report = "completed" /\ report = "completed" /\ web0 = prev.web
  /\ Len(results) = 2 /\ VectorOf(results[1])[10].n > 0

\* C8: after a run whose write back succeeded, sheet row k + 1 holds the k-th
\* record's URL_ID, URL and 13 metric values in columns 1..15, the header row
\* is as it was and there is no row after the last record's.
C8_SheetLayout ==
  (pc = "exit" /\ report = "completed") =>
    /\ Len(book.sheet) = Len(df.rows) + 1
    /\ book.sheet[1] = book0.sheet[1]
    /\ \A k \in 1..Len(df.rows) : book.sheet[k + 1] = results[k]

\* C9: polarity_score and the compound score lie in [-1, 1], and the compound
\* score is 0 when the three masses sum to zero.
C9_ScoreRange ==
  /\ fn = "polarity_score" => InUnitInterval(out)
  /\ fn = "get_bert_sentiment" =>
       /\ InUnitInterval(out[3])
       /\ (~arg.raised /\ \A k \in 1..5 : arg.scores[k] = 0) => out[3] = IntVal(0)
  /\ fn \in {"calculate_scores", "calculate_scores_bert"} => InUnitInterval(out[3])

\* C9 witness: polarity_score called with no positive and one negative word.
C9_Witness ==
  /\ fn = "polarity_score" /\ arg = <<0, 1>>
  /\ out.n = -1000000 /\ out.d = 1000001

\* C10: syllable_count(word) is max(1, v - d), v the number of vowels a, e, i,
\* o, u, y of the lower-cased word and d being 1 when it ends in "es" or "ed",
\* so it is at least 1.
C10_SyllableFloor ==
  fn = "syllable_count" =>
    LET n == Len(arg)
        v == Cardinality({k \in 1..n : LowerChar(arg[k]) \in {"a", "e", "i", "o", "u", "y"}})
        d == IF n >= 2 /\ LowerChar(arg[n - 1]) = "e" /\ LowerChar(arg[n]) \in {"s", "d"}
             THEN 1 ELSE 0
    IN /\ out >= 1
       /\ out = IF v - d >= 1 THEN v - d ELSE 1

\* C10 witness: syllable_count("Ed") is 1.
C10_Witness == fn = "syllable_count" /\ arg = <<"E", "d">> /\ out = 1

====
